---- MODULE Spec2Model ----
(***************************************************************************)
(* Model of the Station-Manager/apikey package: API keys (apikey.go),      *)
(* password hashes (password.go) and bootstrap secrets (bootstrap.go).     *)
(*                                                                         *)
(* A Go string or []byte is a sequence of byte values 0..255, so that the  *)
(* character tests of the code (c >= '0' && c <= '9', ...) are translated  *)
(* as they are written.  Every exported function is an operator that       *)
(* returns a record of the function's results; the record also carries     *)
(* `steps`, the library digest / comparison calls made, in call order.     *)
(* The package keeps no state between calls.  The state machine is one     *)
(* caller of the package: it has a credential issued, then presents it (or *)
(* a damaged copy of it) once; `issued` is the credential it holds and     *)
(* `call` the record of its last call.                                     *)
(***************************************************************************)
EXTENDS Integers, Sequences, FiniteSets, TLC

VARIABLES issued, call

vars == <<issued, call>>

----------------------------------------------------------------------------
(* Bounds of the model *)

\* the requested prefix lengths are -PrefixLenBelow .. MaxPrefixLen + PrefixLenAbove
PrefixLenBelow == 1
PrefixLenAbove == 2
\* the random reads have seeds 0 .. MaxSecretSeed, resp. 171 .. 171 + MaxPrefixSeed
MaxSecretSeed == 1
MaxPrefixSeed == 1
\* how many of the replacement characters are tried at each position of a key
NumKeyRepl == 4
\* how many of the replacement characters are tried at each position of a digest
NumHashRepl == 2
\* the salt reads have seeds 5 .. 5 + MaxSaltSeed
MaxSaltSeed == 1
\* how many of the replacement characters are tried at each position of a
\* stored password or bootstrap hash
NumStoredRepl == 3
\* the bootstrap secret reads have seeds 3 .. 3 + MaxBootSeed
MaxBootSeed == 1
\* the clock readings are 1 .. MaxClock
MaxClock == 2
\* the byte sequences encoded on their own have lengths 0 .. MaxEncodeLen
MaxEncodeLen == 9

----------------------------------------------------------------------------
(* Generic helpers: Go's string, slice and encoding primitives *)

nil == "nil"

emptyString == << >>

Byte == 0..255

\* s[from:] with 0-based from
SliceFrom(s, from) == SubSeq(s, from + 1, Len(s))

\* s[:to] with 0-based exclusive to
SliceTo(s, to) == SubSeq(s, 1, to)

\* strings.Index(s, sep) for a one-byte separator: 0-based index of the
\* first occurrence, -1 when absent
Index(s, c) ==
    IF \E i \in 1..Len(s) : s[i] = c
    THEN (CHOOSE i \in 1..Len(s) : s[i] = c /\ \A j \in 1..(i - 1) : s[j] # c) - 1
    ELSE -1

\* strings.HasSuffix(s, "-") and friends, for a one-byte suffix
HasSuffixByte(s, c) == Len(s) > 0 /\ s[Len(s)] = c

\* strings.ContainsRune(s, rune(c)) for an ASCII-only s: a byte >= 0x80
\* becomes a rune that no ASCII string contains
ContainsRune(s, c) == \E i \in 1..Len(s) : s[i] = c

\* "0123456789abcdef"
hextable == <<48, 49, 50, 51, 52, 53, 54, 55, 56, 57, 97, 98, 99, 100, 101, 102>>

\* hex.EncodeToString: two lowercase hex digits per byte, high nibble first
EncodeToString(b) ==
    [i \in 1..(2 * Len(b)) |->
        IF i % 2 = 1 THEN hextable[(b[(i + 1) \div 2] \div 16) + 1]
                     ELSE hextable[(b[i \div 2] % 16) + 1]]

IsHexChar(c) == (c >= 48 /\ c <= 57) \/ (c >= 97 /\ c <= 102) \/ (c >= 65 /\ c <= 70)

\* the value of a hex digit; letters count in either case
FromHexChar(c) ==
    IF c >= 48 /\ c <= 57 THEN c - 48
    ELSE IF c >= 97 /\ c <= 102 THEN c - 97 + 10
    ELSE c - 65 + 10

\* a slip: an odd length is no error, the last character is dropped
DecodeString_NoLengthCheck(s) ==
    IF \E i \in 1..Len(s) : ~IsHexChar(s[i])
    THEN [err |-> "hex.InvalidByteError", bytes |-> << >>]
    ELSE [err |-> nil,
          bytes |-> [i \in 1..(Len(s) \div 2) |->
                        FromHexChar(s[2 * i - 1]) * 16 + FromHexChar(s[2 * i])]]

\* hex.DecodeString: an error for a character that is no hex digit of
\* either case and for an odd length
DecodeString(s) ==
    IF \E i \in 1..Len(s) : ~IsHexChar(s[i])
    THEN [err |-> "hex.InvalidByteError", bytes |-> << >>]
    ELSE IF Len(s) % 2 = 1
    THEN [err |-> "hex.ErrLength", bytes |-> << >>]
    ELSE [err |-> nil,
          bytes |-> [i \in 1..(Len(s) \div 2) |->
                        FromHexChar(s[2 * i - 1]) * 16 + FromHexChar(s[2 * i])]]

\* subtle.ConstantTimeCompare: 1 when the slices have equal contents, 0
\* otherwise (0 at once when the lengths differ)
ConstantTimeCompare(x, y) ==
    IF Len(x) # Len(y) THEN 0
    ELSE IF \A i \in 1..Len(x) : x[i] = y[i] THEN 1 ELSE 0

\* crypto/rand: the outcome of one rand.Read is an error, or the bytes the
\* source delivers, named by a seed: byte i of a read is seed * (2i - 1)
\* mod 256, so that seed 0 is the all-zero read and the first byte of a read
\* takes every value as the seed runs over 0..255
Rand(seed) == [err |-> nil, seed |-> seed]

RandFailed == [err |-> "entropy", seed |-> 0]

Read(r, n) == [i \in 1..n |-> (r.seed * (2 * i - 1)) % 256]

RECURSIVE Absorb(_, _, _, _, _)
\* the sum over positions lo..hi of (s[i] + 1) times a weight of the
\* position, below the prime modulus: replacing one byte changes the sum
Absorb(s, lo, hi, mult, modulus) ==
    IF lo > hi THEN 0
    ELSE IF lo = hi THEN ((s[lo] + 1) * (((lo * mult) % modulus) + 1)) % modulus
    ELSE LET mid == (lo + hi) \div 2
         IN (Absorb(s, lo, mid, mult, modulus) + Absorb(s, mid + 1, hi, mult, modulus))
                % modulus

\* A digest of outLen bytes of the byte string s under a domain tag: a
\* deterministic function of (tag, s, outLen) whose first four bytes carry
\* two independent sums over the whole input, so that different inputs of
\* the model give different digests (the collision resistance the library
\* functions are relied on for).
Digest(tag, s, outLen) ==
    LET f1 == (tag + 7 * Len(s) + outLen + Absorb(s, 1, Len(s), 7919, 65521)) % 65521
        f2 == (3 * tag + Len(s) + 5 * outLen + Absorb(s, 1, Len(s), 104729, 65519)) % 65519
    IN [i \in 1..outLen |->
          CASE i = 1 -> f1 % 256
            [] i = 2 -> f1 \div 256
            [] i = 3 -> f2 % 256
            [] i = 4 -> f2 \div 256
            [] OTHER -> (((f1 + i * f2) % 65521) + i) % 256]

\* sha512.Sum512: 64 bytes
Sum512(s) == Digest(512, s, 64)

\* sha256.Sum256: 32 bytes
Sum256(s) == Digest(256, s, 32)

\* strings.HasPrefix
HasPrefix(s, pre) == Len(s) >= Len(pre) /\ SubSeq(s, 1, Len(pre)) = pre

RECURSIVE Split(_, _)
\* strings.Split(s, sep) for a one-byte separator
Split(s, c) ==
    LET i == Index(s, c)
    IN IF i < 0 THEN <<s>> ELSE <<SliceTo(s, i)>> \o Split(SliceFrom(s, i + 1), c)

\* strings.SplitN(s, sep, 2) for a one-byte separator
SplitN2(s, c) ==
    LET i == Index(s, c)
    IN IF i < 0 THEN <<s>> ELSE <<SliceTo(s, i), SliceFrom(s, i + 1)>>

\* unicode.IsSpace on an ASCII byte: '\t' '\n' '\v' '\f' '\r' ' '
IsSpace(c) == c \in {9, 10, 11, 12, 13, 32}

\* a slip: only the space character is trimmed
TrimSpace_SpacesOnly(s) ==
    LET keep == {i \in 1..Len(s) : s[i] # 32}
    IN IF keep = {} THEN << >>
       ELSE SubSeq(s, CHOOSE i \in keep : \A j \in keep : i <= j,
                      CHOOSE i \in keep : \A j \in keep : i >= j)

\* strings.TrimSpace, for strings whose white space is ASCII
TrimSpace(s) ==
    LET keep == {i \in 1..Len(s) : ~IsSpace(s[i])}
    IN IF keep = {} THEN << >>
       ELSE SubSeq(s, CHOOSE i \in keep : \A j \in keep : i <= j,
                      CHOOSE i \in keep : \A j \in keep : i >= j)

(* Unsigned integers read from text.  A uint32 can exceed the integers TLC *)
(* computes with, so an unsigned value is kept as its decimal numeral      *)
(* without leading zeros (a sequence of the characters '0'..'9').          *)

IsDigit(c) == c >= 48 /\ c <= 57

RECURSIVE Numeral(_)
\* the decimal numeral of a natural number (fmt's %d, strconv.FormatUint)
Numeral(n) == IF n < 10 THEN <<48 + n>> ELSE Append(Numeral(n \div 10), 48 + (n % 10))

RECURSIVE StripZeros(_)
StripZeros(d) == IF Len(d) > 1 /\ d[1] = 48 THEN StripZeros(Tail(d)) ELSE d

\* a <= b for numerals without leading zeros
NumeralLeq(a, b) ==
    \/ Len(a) < Len(b)
    \/ /\ Len(a) = Len(b)
       /\ \/ a = b
          \/ \E i \in 1..Len(a) : a[i] < b[i] /\ \A j \in 1..(i - 1) : a[j] = b[j]

\* "4294967295", "255"
MaxUint32 == <<52, 50, 57, 52, 57, 54, 55, 50, 57, 53>>

MaxUint8 == <<50, 53, 53>>

\* strconv.ParseUint(s, 10, bitSize): a syntax error for the empty string
\* and for any character that is not a digit (signs and underscores
\* included), a range error above the largest value of the size
ParseUint(s, bitSize) ==
    LET max == IF bitSize = 8 THEN MaxUint8 ELSE MaxUint32
    IN IF s = << >> \/ \E i \in 1..Len(s) : ~IsDigit(s[i])
       THEN [err |-> "strconv.ErrSyntax", val |-> <<48>>]
       ELSE IF ~NumeralLeq(StripZeros(s), max)
            THEN [err |-> "strconv.ErrRange", val |-> max]
            ELSE [err |-> nil, val |-> StripZeros(s)]

\* "ABCDEFGHIJKLMNOPQRSTUVWXYZabcdefghijklmnopqrstuvwxyz0123456789+/"
encodeStd ==
    <<65, 66, 67, 68, 69, 70, 71, 72, 73, 74, 75, 76, 77, 78, 79, 80, 81, 82, 83, 84, 85, 86, 87, 88, 89, 90,
      97, 98, 99, 100, 101, 102, 103, 104, 105, 106, 107, 108, 109, 110, 111, 112, 113, 114, 115, 116, 117, 118, 119, 120, 121, 122,
      48, 49, 50, 51, 52, 53, 54, 55, 56, 57, 43, 47>>

\* the 6-bit value of a base64 character
B64Value(c) == (CHOOSE i \in 1..64 : encodeStd[i] = c) - 1

\* a slip: base64.StdEncoding, which pads the last group with '='
B64Encode_Padded(b) ==
    LET at(i) == IF i <= Len(b) THEN b[i] ELSE 0
        n == (8 * Len(b) + 5) \div 6
    IN [k \in 1..(4 * ((Len(b) + 2) \div 3)) |->
          LET bit == 6 * (k - 1)
              i == (bit \div 8) + 1
              v == CASE bit % 8 = 0 -> at(i) \div 4
                     [] bit % 8 = 6 -> (at(i) % 4) * 16 + (at(i + 1) \div 16)
                     [] bit % 8 = 4 -> (at(i) % 16) * 4 + (at(i + 1) \div 64)
                     [] OTHER -> at(i) % 64
          IN IF k > n THEN 61 ELSE encodeStd[v + 1]]

\* base64.RawStdEncoding.EncodeToString: no padding; character k carries
\* bits 6k .. 6k+5 of the input, zero bits after its end
B64Encode(b) ==
    LET at(i) == IF i <= Len(b) THEN b[i] ELSE 0
    IN [k \in 1..((8 * Len(b) + 5) \div 6) |->
          LET bit == 6 * (k - 1)
              i == (bit \div 8) + 1
              v == CASE bit % 8 = 0 -> at(i) \div 4
                     [] bit % 8 = 6 -> (at(i) % 4) * 16 + (at(i + 1) \div 16)
                     [] bit % 8 = 4 -> (at(i) % 16) * 4 + (at(i + 1) \div 64)
                     [] OTHER -> at(i) % 64
          IN encodeStd[v + 1]]

\* base64.RawStdEncoding.DecodeString: '\r' and '\n' are skipped; any other
\* character outside the alphabet ('=' included) and a lone last character
\* are errors; the bits after the last whole byte are dropped unchecked
\* (the encoding is not Strict)
B64Decode(s) ==
    LET t == SelectSeq(s, LAMBDA c : c # 10 /\ c # 13)
        v(k) == B64Value(t[k])
    IN IF \E k \in 1..Len(t) : ~ContainsRune(encodeStd, t[k])
       THEN [err |-> "base64.CorruptInputError", bytes |-> << >>]
       ELSE IF Len(t) % 4 = 1
            THEN [err |-> "base64.CorruptInputError", bytes |-> << >>]
            ELSE [err |-> nil,
                  bytes |-> [i \in 1..((6 * Len(t)) \div 8) |->
                      LET bit == 8 * (i - 1)
                          k == (bit \div 6) + 1
                      IN CASE bit % 6 = 0 -> v(k) * 4 + (v(k + 1) \div 16)
                           [] bit % 6 = 2 -> (v(k) % 16) * 16 + (v(k + 1) \div 4)
                           [] OTHER -> (v(k) % 4) * 64 + v(k + 1)]]

\* one argument of a digest input, its length first, so that the
\* arguments of a call are told apart
Field(x) == <<Len(x)>> \o x

\* argon2.IDKey(password, salt, time, memory, threads, keyLen): panics when
\* time < 1, threads < 1 or keyLen < 1; otherwise keyLen bytes that depend
\* on every argument.  time, memory and threads are numerals.
IDKey(password, salt, time, memory, threads, keyLen) ==
    IF time = <<48>> \/ threads = <<48>> \/ keyLen < 1
    THEN [panic |-> TRUE, key |-> << >>]
    ELSE [panic |-> FALSE,
          key |-> Digest(2, Field(password) \o Field(salt) \o Field(time)
                            \o Field(memory) \o Field(threads), keyLen)]

----------------------------------------------------------------------------
(* apikey.go *)

DefaultSecretBytes == 20

MaxPrefixLen == 16

SecretSymbolLen == DefaultSecretBytes

\* "_"
separator == 95

\* '-'
dash == 45

\* "ABCDEFGHJKMNPQRSTUVWXYZ23456789"
userFriendlyAlphabet ==
    <<65, 66, 67, 68, 69, 70, 71, 72, 74, 75, 77, 78, 80, 81, 82, 83,
      84, 85, 86, 87, 88, 89, 90, 50, 51, 52, 53, 54, 55, 56, 57>>

RECURSIVE encodeLoop(_, _, _)
\* the loop of encodeUserFriendly: sb is the builder, i the 1-based position
\* of the byte being written (count = i after the write)
encodeLoop(b, i, sb) ==
    IF i > Len(b) THEN sb
    ELSE LET alphabetLen == Len(userFriendlyAlphabet) % 256
             idx == b[i] % alphabetLen
             ch == userFriendlyAlphabet[idx + 1]
             sb1 == Append(sb, ch)
         IN encodeLoop(b, i + 1, IF i % 4 = 0 THEN Append(sb1, dash) ELSE sb1)

\* a slip: the dash written after a last full group is left in place
encodeUserFriendly_NoTrim(b) ==
    IF Len(b) = 0 THEN emptyString ELSE encodeLoop(b, 1, << >>)

encodeUserFriendly(b) ==
    IF Len(b) = 0 THEN emptyString
    ELSE LET secret == encodeLoop(b, 1, << >>)
         IN IF HasSuffixByte(secret, dash) THEN SliceTo(secret, Len(secret) - 1)
            ELSE secret

\* a slip: the dashes are taken out of the secret before it is hashed
HashApiKeySecret_NoDashes(secret) ==
    EncodeToString(Sum512(SelectSeq(secret, LAMBDA c : c # dash)))

HashApiKeySecret(secret) == EncodeToString(Sum512(secret))

\* a slip: the length of the prefix is not checked
isValidPrefix_NoMax(p) ==
    IF p = emptyString THEN FALSE
    ELSE \A i \in 1..Len(p) :
            (p[i] >= 48 /\ p[i] <= 57) \/ (p[i] >= 97 /\ p[i] <= 102)

isValidPrefix(p) ==
    IF p = emptyString \/ Len(p) > MaxPrefixLen THEN FALSE
    ELSE \A i \in 1..Len(p) :
            (p[i] >= 48 /\ p[i] <= 57) \/ (p[i] >= 97 /\ p[i] <= 102)

\* a slip: a secret longer than SecretSymbolLen symbols is let through
isValidSecret_AtLeast(s) ==
    IF s = emptyString THEN FALSE
    ELSE LET plain == {i \in 1..Len(s) : s[i] # dash}
         IN IF \E i \in plain : ~ContainsRune(userFriendlyAlphabet, s[i]) THEN FALSE
            ELSE Cardinality(plain) >= SecretSymbolLen

isValidSecret(s) ==
    IF s = emptyString THEN FALSE
    ELSE LET plain == {i \in 1..Len(s) : s[i] # dash}
         IN IF \E i \in plain : ~ContainsRune(userFriendlyAlphabet, s[i]) THEN FALSE
            ELSE Cardinality(plain) = SecretSymbolLen

\* a slip: the hex of the prefix draw is not cut to the requested length
GenPrefix_NoCut(prefixLen, b, pb) == EncodeToString(pb)

\* a slip (the earlier revision of the package): the prefix is the leading
\* hex characters of the secret's bytes
GenPrefix_FromSecret(prefixLen, b, pb) == SliceTo(EncodeToString(b), prefixLen)

\* the prefix of a generated key: b are the secret's bytes, pb the bytes
\* drawn for the prefix; hex of pb cut to the clamped length
GenPrefix(prefixLen, b, pb) == SliceTo(EncodeToString(pb), prefixLen)

\* a slip: the raw secret bytes are hashed, not the string the client holds
GenHash_RawBytes(b, secret) == EncodeToString(Sum512(b))

\* the digest GenerateApiKey returns: b are the secret's bytes, secret
\* their user-friendly encoding
GenHash(b, secret) == EncodeToString(Sum512(secret))

\* r1 is the outcome of the rand.Read for the secret, r2 of the later
\* rand.Read for the prefix
GenerateApiKey(prefixLenArg, r1, r2) ==
    LET prefixLen == IF prefixLenArg <= 0 \/ prefixLenArg > MaxPrefixLen
                     THEN MaxPrefixLen ELSE prefixLenArg
        failed == [fullKey |-> emptyString, prefix |-> emptyString,
                   hash |-> emptyString, err |-> "rand.Read", steps |-> << >>]
        b == Read(r1, DefaultSecretBytes)
        prefixBytes == (prefixLen + 1) \div 2
        pb == Read(r2, prefixBytes)
    IN IF r1.err # nil THEN failed
       ELSE IF r2.err # nil THEN failed
       ELSE LET secret == encodeUserFriendly(b)
                prefix == GenPrefix(prefixLen, b, pb)
            IN [fullKey |-> prefix \o <<separator>> \o secret,
                prefix |-> prefix,
                hash |-> GenHash(b, secret),
                err |-> nil,
                steps |-> <<"sha512">>]

ParseApiKey(fullKey) ==
    LET bad(e) == [prefix |-> emptyString, secret |-> emptyString, err |-> e]
        idx == Index(fullKey, separator)
    IN IF fullKey = emptyString THEN bad("empty key")
       ELSE IF idx <= 0 \/ idx >= Len(fullKey) - 1 THEN bad("invalid key format")
       ELSE LET prefix == SliceTo(fullKey, idx)
                secret == SliceFrom(fullKey, idx + 1)
            IN IF ~isValidPrefix(prefix) \/ ~isValidSecret(secret)
               THEN bad("invalid key format")
               ELSE [prefix |-> prefix, secret |-> secret, err |-> nil]

\* a slip: a mismatch is reported as an error
CompareDigest_ErrOnMismatch(h, storedHash) ==
    IF h = storedHash
    THEN [ok |-> TRUE, err |-> nil, steps |-> <<"sha512", "ConstantTimeCompare">>]
    ELSE [ok |-> FALSE, err |-> "hash mismatch", steps |-> <<"sha512", "ConstantTimeCompare">>]

\* a slip: only the first 64 characters of the two digests are compared
CompareDigest_FirstHalf(h, storedHash) ==
    IF Len(h) # Len(storedHash)
    THEN [ok |-> FALSE, err |-> nil, steps |-> <<"sha512">>]
    ELSE [ok |-> ConstantTimeCompare(SliceTo(h, 64), SliceTo(storedHash, 64)) = 1,
          err |-> nil, steps |-> <<"sha512", "ConstantTimeCompare">>]

\* the comparison at the end of ValidateApiKey: length check, then the
\* constant-time routine
CompareDigest(h, storedHash) ==
    IF Len(h) # Len(storedHash)
    THEN [ok |-> FALSE, err |-> nil, steps |-> <<"sha512">>]
    ELSE [ok |-> ConstantTimeCompare(h, storedHash) = 1, err |-> nil,
          steps |-> <<"sha512", "ConstantTimeCompare">>]

ValidateApiKey(fullKey, storedHash) ==
    LET p == ParseApiKey(fullKey)
    IN IF p.err # nil THEN [ok |-> FALSE, err |-> p.err, steps |-> << >>]
       ELSE IF p.secret = emptyString
            THEN [ok |-> FALSE, err |-> "empty secret", steps |-> << >>]
       ELSE CompareDigest(HashApiKeySecret(p.secret), storedHash)

----------------------------------------------------------------------------
(* password.go *)

argonTime == 2

argonMemory == 64 * 1024

argonParallel == 1

argonSaltLen == 16

argonKeyLen == 32

\* the Argon2id parameters compiled into the package
DefaultParams ==
    [time |-> argonTime, memory |-> argonMemory, parallel |-> argonParallel,
     saltLen |-> argonSaltLen, keyLen |-> argonKeyLen]

\* "$argon2id$", "v=19"
argon2idPrefix == <<36, 97, 114, 103, 111, 110, 50, 105, 100, 36>>

version19 == <<118, 61, 49, 57>>

\* fmt.Sprintf("$argon2id$v=19$m=%d,t=%d,p=%d$%s$%s", memory, time, parallel, b64Salt, b64Hash)
SprintfPHC(memory, time, parallel, b64Salt, b64Hash) ==
    argon2idPrefix \o version19 \o <<36, 109, 61>> \o Numeral(memory)
        \o <<44, 116, 61>> \o Numeral(time) \o <<44, 112, 61>> \o Numeral(parallel)
        \o <<36>> \o b64Salt \o <<36>> \o b64Hash

\* HashPassword as compiled with the parameters cfg; r is the outcome of
\* the rand.Read for the salt
HashPasswordWith(cfg, password, r) ==
    IF TrimSpace(password) = emptyString
    THEN [phc |-> emptyString, err |-> "password cannot be empty", panic |-> FALSE,
          steps |-> << >>]
    ELSE IF r.err # nil
    THEN [phc |-> emptyString, err |-> "rand.Read", panic |-> FALSE, steps |-> << >>]
    ELSE LET salt == Read(r, cfg.saltLen)
             h == IDKey(password, salt, Numeral(cfg.time), Numeral(cfg.memory),
                        Numeral(cfg.parallel), cfg.keyLen)
         IN IF h.panic
            THEN [phc |-> emptyString, err |-> nil, panic |-> TRUE, steps |-> <<"argon2">>]
            ELSE [phc |-> SprintfPHC(cfg.memory, cfg.time, cfg.parallel,
                                     B64Encode(salt), B64Encode(h.key)),
                  err |-> nil, panic |-> FALSE, steps |-> <<"argon2">>]

HashPassword(password, r) == HashPasswordWith(DefaultParams, password, r)

\* a slip: any version segment is accepted
CheckVersion_Any(versionPart) == TRUE

\* versionPart != "v=19" is the error
CheckVersion(versionPart) == versionPart = version19

RECURSIVE paramLoop(_, _, _)
\* the loop over the "k=v" entries of the parameter segment; st holds mem,
\* time and par as assigned so far and the error that ended the loop
paramLoop(kvs, i, st) ==
    IF i > Len(kvs) THEN st
    ELSE LET kvp == SplitN2(kvs[i], 61)
         IN IF Len(kvp) # 2 THEN [st EXCEPT !.err = "invalid argon2 params"]
            ELSE CASE kvp[1] = <<109>> ->
                        LET mv == ParseUint(kvp[2], 32)
                        IN IF mv.err # nil THEN [st EXCEPT !.err = mv.err]
                           ELSE paramLoop(kvs, i + 1, [st EXCEPT !.mem = mv.val])
                   [] kvp[1] = <<116>> ->
                        LET iv == ParseUint(kvp[2], 32)
                        IN IF iv.err # nil THEN [st EXCEPT !.err = iv.err]
                           ELSE paramLoop(kvs, i + 1, [st EXCEPT !.time = iv.val])
                   [] kvp[1] = <<112>> ->
                        LET pv == ParseUint(kvp[2], 8)
                        IN IF pv.err # nil THEN [st EXCEPT !.err = pv.err]
                           ELSE paramLoop(kvs, i + 1, [st EXCEPT !.par = pv.val])
                   [] OTHER -> [st EXCEPT !.err = "unknown argon2 param"]

\* a slip: the derivation uses the compiled-in parameters
VerifyDerive_Defaults(password, salt, time, mem, par, want) ==
    IDKey(password, salt, Numeral(argonTime), Numeral(argonMemory),
          Numeral(argonParallel), argonKeyLen)

\* the derivation of VerifyPassword, from the values read from the string
VerifyDerive(password, salt, time, mem, par, want) ==
    IDKey(password, salt, time, mem, par, Len(want))

\* the comparison at the end of VerifyPassword
VerifyCompare(got, want) ==
    IF Len(got) # Len(want)
    THEN [ok |-> FALSE, err |-> nil, panic |-> FALSE, steps |-> <<"argon2">>]
    ELSE [ok |-> ConstantTimeCompare(got, want) = 1, err |-> nil, panic |-> FALSE,
          steps |-> <<"argon2", "ConstantTimeCompare">>]

VerifyPassword(phc, password) ==
    LET bad(e) == [ok |-> FALSE, err |-> e, panic |-> FALSE, steps |-> << >>]
        parts == Split(phc, 36)
    IN IF ~HasPrefix(phc, argon2idPrefix) THEN bad("unsupported hash format")
       ELSE IF Len(parts) # 6 THEN bad("invalid phc format")
       ELSE IF ~CheckVersion(parts[3]) THEN bad("unsupported argon2 version")
       ELSE LET st == paramLoop(Split(parts[4], 44), 1,
                                [mem |-> <<48>>, time |-> <<48>>, par |-> <<48>>,
                                 err |-> nil])
                salt == B64Decode(parts[5])
                want == B64Decode(parts[6])
            IN IF st.err # nil THEN bad(st.err)
               ELSE IF salt.err # nil THEN bad("decode salt")
               ELSE IF want.err # nil THEN bad("decode hash")
               ELSE LET got == VerifyDerive(password, salt.bytes, st.time, st.mem,
                                            st.par, want.bytes)
                    IN IF got.panic
                       THEN [ok |-> FALSE, err |-> nil, panic |-> TRUE,
                             steps |-> <<"argon2">>]
                       ELSE VerifyCompare(got.key, want.bytes)

----------------------------------------------------------------------------
(* bootstrap.go *)

\* ":"
colonString == 58

\* the zero time.Time; the clock is counted in seconds and reads 1 or more
ZeroTime == 0

\* a slip: 24 * time.Minute
BootstrapTTL_Minutes == 24 * 60

\* 24 * time.Hour, in seconds
BootstrapTTL == 24 * 3600

\* a slip: the salt is not passed to the derivation
BootstrapDerive_NoSalt(sum, salt) ==
    IDKey(sum, << >>, Numeral(1), Numeral(64 * 1024), Numeral(4), 32)

\* the key derivation of both bootstrap functions:
\* argon2.IDKey(sum[:], salt, 1, 64*1024, 4, 32)
BootstrapDerive(sum, salt) == IDKey(sum, salt, Numeral(1), Numeral(64 * 1024), Numeral(4), 32)

\* r1 is the outcome of the rand.Read for the secret, r2 of the one for the
\* salt, now the reading of time.Now().  The results are named results:
\* a bare return gives back what has been assigned so far.
GenerateBootstrap(r1, r2, now) ==
    LET secret == Read(r1, 32)
        plain == EncodeToString(secret)
        sum == Sum256(secret)
        salt == Read(r2, 16)
        derived == BootstrapDerive(sum, salt)
    IN IF r1.err # nil
       THEN [plain |-> emptyString, hash |-> emptyString, expires |-> ZeroTime,
             err |-> "rand.Read", panic |-> FALSE, steps |-> << >>]
       ELSE IF r2.err # nil
       THEN [plain |-> plain, hash |-> emptyString, expires |-> ZeroTime,
             err |-> "rand.Read", panic |-> FALSE, steps |-> <<"sha256">>]
       ELSE IF derived.panic
       THEN [plain |-> plain, hash |-> emptyString, expires |-> ZeroTime,
             err |-> nil, panic |-> TRUE, steps |-> <<"sha256", "argon2">>]
       ELSE [plain |-> plain,
             hash |-> EncodeToString(salt) \o <<colonString>> \o EncodeToString(derived.key),
             expires |-> now + BootstrapTTL,
             err |-> nil, panic |-> FALSE, steps |-> <<"sha256", "argon2">>]

\* a slip: the hex text of the secret is hashed, not the bytes it stands for
PlainSum_HexString(plain, secretBytes) == Sum256(plain)

\* the first stage of ValidateBootstrap: sha256.Sum256(secretBytes), of the
\* bytes decoded from plain
PlainSum(plain, secretBytes) == Sum256(secretBytes)

\* a slip: the constant-time routine is called without the length check
BootstrapCompare_NoLengthCheck(computed, storedDerived) ==
    [ok |-> ConstantTimeCompare(computed, storedDerived) = 1, err |-> nil,
     panic |-> FALSE, steps |-> <<"sha256", "argon2", "ConstantTimeCompare">>]

\* the comparison at the end of ValidateBootstrap
BootstrapCompare(computed, storedDerived) ==
    IF Len(computed) # Len(storedDerived)
    THEN [ok |-> FALSE, err |-> nil, panic |-> FALSE, steps |-> <<"sha256", "argon2">>]
    ELSE IF ConstantTimeCompare(computed, storedDerived) # 1
    THEN [ok |-> FALSE, err |-> nil, panic |-> FALSE,
          steps |-> <<"sha256", "argon2", "ConstantTimeCompare">>]
    ELSE [ok |-> TRUE, err |-> nil, panic |-> FALSE,
          steps |-> <<"sha256", "argon2", "ConstantTimeCompare">>]

\* a slip: the presented secret is decoded and hashed first, the stored
\* value is split and decoded after that
ValidateBootstrap_HashFirst(plain, stored) ==
    LET bad(e, st) == [ok |-> FALSE, err |-> e, panic |-> FALSE, steps |-> st]
        parts == Split(stored, colonString)
        secretBytes == DecodeString(plain)
    IN IF plain = emptyString \/ stored = emptyString
       THEN bad("empty plain or stored value", << >>)
       ELSE IF secretBytes.err # nil THEN bad("invalid plaintext encoding", << >>)
       ELSE IF Len(parts) # 2
       THEN bad("invalid stored bootstrap hash format", <<"sha256">>)
       ELSE LET salt == DecodeString(parts[1])
                storedDerived == DecodeString(parts[2])
            IN IF salt.err # nil THEN bad("invalid salt encoding", <<"sha256">>)
               ELSE IF storedDerived.err # nil
               THEN bad("invalid hash encoding", <<"sha256">>)
               ELSE LET computed == BootstrapDerive(PlainSum(plain, secretBytes.bytes),
                                                    salt.bytes)
                    IN IF computed.panic
                       THEN [ok |-> FALSE, err |-> nil, panic |-> TRUE,
                             steps |-> <<"sha256", "argon2">>]
                       ELSE BootstrapCompare(computed.key, storedDerived.bytes)

ValidateBootstrap(plain, stored) ==
    LET bad(e) == [ok |-> FALSE, err |-> e, panic |-> FALSE, steps |-> << >>]
        parts == Split(stored, colonString)
    IN IF plain = emptyString \/ stored = emptyString
       THEN bad("empty plain or stored value")
       ELSE IF Len(parts) # 2 THEN bad("invalid stored bootstrap hash format")
       ELSE LET salt == DecodeString(parts[1])
                storedDerived == DecodeString(parts[2])
                secretBytes == DecodeString(plain)
            IN IF salt.err # nil THEN bad("invalid salt encoding")
               ELSE IF storedDerived.err # nil THEN bad("invalid hash encoding")
               ELSE IF secretBytes.err # nil THEN bad("invalid plaintext encoding")
               ELSE LET computed == BootstrapDerive(PlainSum(plain, secretBytes.bytes), salt.bytes)
                    IN IF computed.panic
                       THEN [ok |-> FALSE, err |-> nil, panic |-> TRUE,
                             steps |-> <<"sha256", "argon2">>]
                       ELSE BootstrapCompare(computed.key, storedDerived.bytes)

----------------------------------------------------------------------------
(* The caller: inputs of the calls *)


PrefixLenArgs == (0 - PrefixLenBelow)..(MaxPrefixLen + PrefixLenAbove)

SecretDraws == {Rand(s) : s \in 0..MaxSecretSeed} \cup {RandFailed}

\* 171 = 0xab: the prefix draws start at a byte with two letter digits
PrefixDraws == {Rand(171 + s) : s \in 0..MaxPrefixSeed} \cup {RandFailed}

Replace(s, k, c) == [s EXCEPT ![k] = c]

Delete(s, k) == SubSeq(s, 1, k - 1) \o SubSeq(s, k + 1, Len(s))

Insert(s, k, c) == SubSeq(s, 1, k - 1) \o <<c>> \o SubSeq(s, k, Len(s))

\* the seeds of the byte sequences encoded on their own
EncodeSeeds == {0, 1, 37, 255}

\* the byte sequences given to encodeUserFriendly on its own
EncodeInputs == {Read(Rand(seed), n) : seed \in EncodeSeeds, n \in 0..MaxEncodeLen}

\* replacement characters for a key: 'g' 'L' '_' '-' 'A' '0' '1' 0x80
KeyReplChars == <<103, 76, 95, 45, 65, 48, 49, 128>>

\* replacement characters for a digest: '0' '1' 'g' 'A'
HashReplChars == <<48, 49, 103, 65>>

FirstN(s, n) == {s[i] : i \in 1..(IF n < Len(s) THEN n ELSE Len(s))}

\* the keys a caller presents: the issued key, and the issued key with one
\* character replaced, removed or inserted, or cut at the separator
KeyVariants(k) ==
    {k, emptyString}
    \cup {Replace(k, i, c) : i \in 1..Len(k), c \in FirstN(KeyReplChars, NumKeyRepl)}
    \cup {Delete(k, i) : i \in 1..Len(k)}
    \cup {Insert(k, i, 65) : i \in 1..(Len(k) + 1)}
    \cup {Insert(k, 1, 48)}
    \cup {SliceTo(k, Index(k, separator) + 1), SliceFrom(k, Index(k, separator))}

\* the issued key with one more dash in its secret, at the start, at the
\* end or anywhere between, and with no dash at all
DashVariants(k) ==
    {Insert(k, i, dash) : i \in (Index(k, separator) + 2)..(Len(k) + 1)}
    \cup {SelectSeq(k, LAMBDA c : c # dash)}

\* the stored digests a caller presents: the issued one, the issued one
\* with one character replaced by a different one, and wrong lengths
HashVariants(h) ==
    {h, emptyString, SliceTo(h, Len(h) - 1), Append(h, 48)}
    \cup {Replace(h, i, c) : i \in 1..Len(h), c \in FirstN(HashReplChars, NumHashRepl)}

\* the parameters HashPassword is compiled with: the current ones and
\* those of two earlier builds
BuildParams ==
    {DefaultParams,
     [time |-> 3, memory |-> 32 * 1024, parallel |-> 2, saltLen |-> 16, keyLen |-> 32],
     [time |-> 1, memory |-> 4096, parallel |-> 4, saltLen |-> 8, keyLen |-> 16]}

\* "pw", "pw ", "correct horse battery staple", " \t", ""
Passwords ==
    {<<112, 119>>, <<112, 119, 32>>,
     <<99, 111, 114, 114, 101, 99, 116, 32, 104, 111, 114, 115, 101, 32, 
      98, 97, 116, 116, 101, 114, 121, 32, 115, 116, 97, 112, 108, 101>>,
     <<32, 9>>, << >>}

SaltDraws == {Rand(5 + s) : s \in 0..MaxSaltSeed} \cup {RandFailed}

\* replacement characters for a hash string: '0' '$' 'A' ',' '\n' '=' 'g' ':'
StoredReplChars == <<48, 36, 65, 44, 10, 61, 103, 58>>

\* the base64 character whose value differs from that of c in the lowest
\* bit only (c itself when c is no base64 character)
B64Neighbour(c) ==
    IF ~ContainsRune(encodeStd, c) THEN c
    ELSE encodeStd[(IF B64Value(c) % 2 = 0 THEN B64Value(c) + 1 ELSE B64Value(c) - 1) + 1]

\* the upper-case form of a lower-case letter (c itself otherwise)
Upper(c) == IF c >= 97 /\ c <= 122 THEN c - 32 ELSE c

\* a stored hash string with one character replaced by a different one
Tampered(h) ==
    UNION {{Replace(h, i, c) : c \in (FirstN(StoredReplChars, NumStoredRepl)
                                        \cup {B64Neighbour(h[i]), Upper(h[i])}) \ {h[i]}}
           : i \in 1..Len(h)}

\* the hash strings a caller presents: the issued one, tampered ones, and
\* the issued one with a character removed or a '$' inserted
PhcVariants(h) ==
    {h, emptyString} \cup Tampered(h)
    \cup {Delete(h, i) : i \in 1..Len(h)}
    \cup {Insert(h, i, 36) : i \in 1..(Len(h) + 1)}

\* "$argon2i$v=19$m=65536,t=2,p=1$bad$bad", "not-phc"
TestPhcs ==
    {<<36, 97, 114, 103, 111, 110, 50, 105, 36, 118, 61, 49, 57, 36, 
      109, 61, 54, 53, 53, 51, 54, 44, 116, 61, 50, 44, 112, 61, 49, 36, 98, 97, 100, 36, 98, 97, 100>>,
     <<110, 111, 116, 45, 112, 104, 99>>}

RECURSIVE Join(_, _)
\* strings.Join(parts, sep) for a one-byte separator
Join(parts, c) ==
    IF Len(parts) = 0 THEN << >>
    ELSE IF Len(parts) = 1 THEN parts[1]
    ELSE parts[1] \o <<c>> \o Join(Tail(parts), c)

\* values written in place of the value of a parameter entry:
\* "0", "256", "4294967296", ""
BadParamValues == {<<48>>, <<50, 53, 54>>, <<52, 50, 57, 52, 57, 54, 55, 50, 57, 54>>, << >>}

\* parameter segments made from the segment seg of an issued string: one
\* entry left out, one entry written twice, one entry's value replaced, an
\* entry "x=1" added
ParamVariants(seg) ==
    LET kvs == Split(seg, 44)
        key(i) == SplitN2(kvs[i], 61)[1]
    IN {Join(SubSeq(kvs, 1, i - 1) \o SubSeq(kvs, i + 1, Len(kvs)), 44) : i \in 1..Len(kvs)}
       \cup {Join(SubSeq(kvs, 1, i) \o SubSeq(kvs, i, Len(kvs)), 44) : i \in 1..Len(kvs)}
       \cup {Join([kvs EXCEPT ![i] = key(i) \o <<61>> \o v], 44) :
                 i \in 1..Len(kvs), v \in BadParamValues}
       \cup {Join(Append(kvs, <<120, 61, 49>>), 44)}

\* hash strings made from an issued one that keep its prefix, field count
\* and version: another parameter segment, an empty salt field, an empty
\* hash field
MalformedPhcs(h) ==
    LET parts == Split(h, 36)
    IN {Join([parts EXCEPT ![4] = seg], 36) : seg \in ParamVariants(parts[4])}
       \cup {Join([parts EXCEPT ![5] = << >>], 36), Join([parts EXCEPT ![6] = << >>], 36)}

BootSecretDraws == {Rand(3 + s) : s \in 0..MaxBootSeed} \cup {RandFailed}

Clock == 1..MaxClock

\* "deadbeef"
deadbeef == <<100, 101, 97, 100, 98, 101, 101, 102>>

\* the stored bootstrap hashes a caller presents
StoredVariants(h) ==
    {h, emptyString} \cup Tampered(h)
    \cup {Delete(h, i) : i \in 1..Len(h)}
    \cup {Insert(h, i, colonString) : i \in 1..(Len(h) + 1)}

\* stored bootstrap hashes whose derived segment stands for fewer or more
\* than 32 bytes: two digits cut off, "00" appended, no digits at all
StoredLengthVariants(h) ==
    {SliceTo(h, Len(h) - 2), h \o <<48, 48>>, SliceTo(h, Index(h, colonString) + 1)}

\* the plaintext secrets a caller presents
PlainVariants(p) == {p, emptyString, p \o deadbeef} \cup Tampered(p)

NoCredential == [kind |-> "none"]

----------------------------------------------------------------------------
(* Actions: one per exported function *)

DoGenerateApiKey ==
    /\ call.op = "none"
    /\ \E n \in PrefixLenArgs :
      \E r1 \in SecretDraws :
        \E r2 \in PrefixDraws :
          LET r == GenerateApiKey(n, r1, r2)
          IN /\ call' = [op |-> "GenerateApiKey", prefixLen |-> n, r1 |-> r1, r2 |-> r2,
                         ret |-> r]
             /\ issued' = IF r.err = nil
                          THEN [kind |-> "apikey", fullKey |-> r.fullKey,
                                prefix |-> r.prefix, hash |-> r.hash]
                          ELSE issued

DoEncodeUserFriendly ==
    /\ call.op = "none"
    /\ \E b \in EncodeInputs :
         call' = [op |-> "encodeUserFriendly", b |-> b, ret |-> encodeUserFriendly(b)]
    /\ UNCHANGED issued

DoParseApiKey ==
    /\ call.op = "GenerateApiKey"
    /\ issued.kind = "apikey"
    /\ \E k \in KeyVariants(issued.fullKey) \cup DashVariants(issued.fullKey) :
         call' = [op |-> "ParseApiKey", fullKey |-> k, ret |-> ParseApiKey(k)]
    /\ UNCHANGED issued

DoValidateApiKey ==
    /\ call.op = "GenerateApiKey"
    /\ issued.kind = "apikey"
    /\ \E kh \in ({issued.fullKey} \X HashVariants(issued.hash))
                  \cup (KeyVariants(issued.fullKey) \X {issued.hash}) :
         LET k == kh[1]
             h == kh[2]
         IN call' = [op |-> "ValidateApiKey", fullKey |-> k, storedHash |-> h,
                  ret |-> ValidateApiKey(k, h)]
    /\ UNCHANGED issued

DoHashPassword ==
    /\ call.op = "none"
    /\ \E cfg \in BuildParams, pw \in Passwords, r \in SaltDraws :
         LET ret == HashPasswordWith(cfg, pw, r)
         IN /\ call' = [op |-> "HashPassword", cfg |-> cfg, password |-> pw, r |-> r,
                        ret |-> ret]
            /\ issued' = IF ret.err = nil /\ ~ret.panic
                         THEN [kind |-> "password", phc |-> ret.phc, password |-> pw,
                               cfg |-> cfg]
                         ELSE issued

DoVerifyPassword ==
    /\ call.op = "HashPassword"
    /\ issued.kind = "password"
    /\ \E hp \in (PhcVariants(issued.phc) \X {issued.password})
                  \cup ({issued.phc} \X Passwords)
                  \cup (TestPhcs \X {issued.password})
                  \cup (MalformedPhcs(issued.phc) \X {issued.password}) :
         call' = [op |-> "VerifyPassword", phc |-> hp[1], password |-> hp[2],
                  ret |-> VerifyPassword(hp[1], hp[2])]
    /\ UNCHANGED issued

\* the call starts at clock reading start, reads the clock as now in its
\* last statement and returns at done
DoGenerateBootstrap ==
    /\ call.op = "none"
    /\ \E r1 \in BootSecretDraws, r2 \in SaltDraws, start \in Clock, now \in Clock,
          done \in Clock :
         LET ret == GenerateBootstrap(r1, r2, now)
         IN /\ start <= now
            /\ now <= done
            /\ call' = [op |-> "GenerateBootstrap", r1 |-> r1, r2 |-> r2, start |-> start,
                        now |-> now, done |-> done, ret |-> ret]
            /\ issued' = IF ret.err = nil /\ ~ret.panic
                         THEN [kind |-> "bootstrap", plain |-> ret.plain,
                               hash |-> ret.hash, expires |-> ret.expires]
                         ELSE issued

DoValidateBootstrap ==
    /\ call.op = "GenerateBootstrap"
    /\ issued.kind = "bootstrap"
    /\ \E ps \in ({issued.plain} \X StoredVariants(issued.hash))
                  \cup ({issued.plain} \X StoredLengthVariants(issued.hash))
                  \cup (PlainVariants(issued.plain) \X {issued.hash}) :
         call' = [op |-> "ValidateBootstrap", plain |-> ps[1], stored |-> ps[2],
                  ret |-> ValidateBootstrap(ps[1], ps[2])]
    /\ UNCHANGED issued

Init ==
    /\ issued = NoCredential
    /\ call = [op |-> "none"]

NextApiKey == DoGenerateApiKey \/ DoEncodeUserFriendly \/ DoParseApiKey \/ DoValidateApiKey

SpecApiKey == Init /\ [][NextApiKey]_vars

NextPassword == DoHashPassword \/ DoVerifyPassword

SpecPassword == Init /\ [][NextPassword]_vars

NextBootstrap == DoGenerateBootstrap \/ DoValidateBootstrap

SpecBootstrap == Init /\ [][NextBootstrap]_vars

\* the three validators, each after the generation of its credential
NextValidators ==
    \/ DoGenerateApiKey \/ DoValidateApiKey
    \/ DoHashPassword \/ DoVerifyPassword
    \/ DoGenerateBootstrap \/ DoValidateBootstrap

SpecValidators == Init /\ [][NextValidators]_vars

Next == NextApiKey \/ NextPassword \/ NextBootstrap

Spec == Init /\ [][Next]_vars

----------------------------------------------------------------------------
(* Properties of the API key functions *)

LowerHex == (48..57) \cup (97..102)

AlphabetSet == {userFriendlyAlphabet[i] : i \in 1..Len(userFriendlyAlphabet)}

Generated == call.op = "GenerateApiKey" /\ call.ret.err = nil

\* the number of positions at which two strings of equal length differ
DiffCount(x, y) == Cardinality({i \in 1..Len(x) : x[i] # y[i]})

\* C1: round trip. Parsing the generated full key succeeds and gives back
\* the generated prefix and a secret whose digest is the generated digest;
\* validating the generated full key against the generated digest gives
\* (true, no error).
C1_RoundTrip ==
    /\ (call.op = "ParseApiKey" /\ call.fullKey = issued.fullKey)
         => /\ call.ret.err = nil
            /\ call.ret.prefix = issued.prefix
            /\ HashApiKeySecret(call.ret.secret) = issued.hash
    /\ (call.op = "ValidateApiKey" /\ call.fullKey = issued.fullKey
                                   /\ call.storedHash = issued.hash)
         => (call.ret.ok = TRUE /\ call.ret.err = nil)

C1_Witness ==
    /\ call.op = "ValidateApiKey"
    /\ call.fullKey = issued.fullKey
    /\ call.storedHash = issued.hash
    /\ Len(issued.prefix) = 7
    /\ call.ret.ok

\* C2: ValidateApiKey has three outcomes: (false, error) for a malformed
\* key, (false, no error) for a well-formed key whose digest differs from
\* storedHash, (true, no error) for a well-formed key whose digest equals
\* storedHash; never true with an error.
C2_ThreeOutcomes ==
    call.op = "ValidateApiKey" =>
        LET p == ParseApiKey(call.fullKey)
        IN /\ p.err # nil => (call.ret.ok = FALSE /\ call.ret.err # nil)
           /\ (p.err = nil /\ HashApiKeySecret(p.secret) # call.storedHash)
                => (call.ret.ok = FALSE /\ call.ret.err = nil)
           /\ (p.err = nil /\ HashApiKeySecret(p.secret) = call.storedHash)
                => (call.ret.ok = TRUE /\ call.ret.err = nil)
           /\ ~(call.ret.ok /\ call.ret.err # nil)

\* a well-formed key with another secret than the issued one is presented
\* with the issued digest
C2_Witness ==
    /\ call.op = "ValidateApiKey"
    /\ call.storedHash = issued.hash
    /\ ParseApiKey(call.fullKey).err = nil
    /\ ParseApiKey(call.fullKey).secret # ParseApiKey(issued.fullKey).secret
    /\ call.ret.ok = FALSE
    /\ call.ret.err = nil

\* the segments of a key around its first separator (both empty when there
\* is none)
PrefixSegment(k) == SubSeq(k, 1, Index(k, separator))

SecretSegment(k) ==
    IF Index(k, separator) < 0 THEN << >> ELSE SubSeq(k, Index(k, separator) + 2, Len(k))

Symbols(x) == {i \in 1..Len(x) : x[i] # dash}

\* the malformed inputs of C3
Malformed(k) ==
    \/ k = << >>
    \/ \A i \in 1..Len(k) : k[i] # separator
    \/ PrefixSegment(k) = << >>
    \/ SecretSegment(k) = << >>
    \/ \E i \in 1..Len(PrefixSegment(k)) : PrefixSegment(k)[i] \notin LowerHex
    \/ \E i \in Symbols(SecretSegment(k)) : SecretSegment(k)[i] \notin AlphabetSet
    \/ Cardinality(Symbols(SecretSegment(k))) # SecretSymbolLen

\* C3: ParseApiKey returns an error and empty prefix and secret for every
\* input that is empty, has no separator, an empty prefix or secret segment,
\* a prefix character that is not lowercase hex, a secret character that is
\* neither a dash nor in the alphabet, or a secret whose non-dash symbol
\* count is not SecretSymbolLen.
C3_MalformedRejected ==
    (call.op = "ParseApiKey" /\ Malformed(call.fullKey))
        => /\ call.ret.err # nil
           /\ call.ret.prefix = emptyString
           /\ call.ret.secret = emptyString

\* a key that is well formed but for one symbol too many in the secret
C3_Witness ==
    /\ call.op = "ParseApiKey"
    /\ call.ret.err # nil
    /\ \A i \in 1..Len(PrefixSegment(call.fullKey)) : PrefixSegment(call.fullKey)[i] \in LowerHex
    /\ PrefixSegment(call.fullKey) # << >>
    /\ \A i \in Symbols(SecretSegment(call.fullKey)) : SecretSegment(call.fullKey)[i] \in AlphabetSet
    /\ Cardinality(Symbols(SecretSegment(call.fullKey))) = SecretSymbolLen + 1

\* C4: the generated prefix is lowercase hex, of the requested length when
\* that is 1..MaxPrefixLen and of length MaxPrefixLen otherwise; the full
\* key is the prefix, the separator and the secret.
C4_PrefixLength ==
    Generated =>
        LET n == call.prefixLen
            want == IF n >= 1 /\ n <= MaxPrefixLen THEN n ELSE MaxPrefixLen
            r == call.ret
        IN /\ Len(r.prefix) = want
           /\ \A i \in 1..Len(r.prefix) : r.prefix[i] \in LowerHex
           /\ Len(r.fullKey) > want + 1
           /\ SubSeq(r.fullKey, 1, want) = r.prefix
           /\ r.fullKey[want + 1] = separator
           /\ SubSeq(r.fullKey, want + 2, Len(r.fullKey))
                 = encodeUserFriendly(Read(call.r1, DefaultSecretBytes))

C4_Witness ==
    /\ Generated
    /\ call.prefixLen = 7
    /\ Len(call.ret.prefix) = 7

\* C5: the prefix does not depend on the secret's draw: with the prefix
\* draw kept, every secret draw gives the same prefix; and with the secret
\* draw kept, every prefix of the requested length comes out of some prefix
\* draw (checked for length 1, over all 256 values of the byte drawn).
C5_PrefixIndependent ==
    Generated =>
        /\ \A s \in 0..(MaxSecretSeed + 1) :
              GenerateApiKey(call.prefixLen, Rand(s), call.r2).prefix = call.ret.prefix
        /\ call.prefixLen = 1 =>
              \A h \in LowerHex : \E s \in Byte :
                 GenerateApiKey(1, call.r1, Rand(s)).prefix = <<h>>

C5_Witness ==
    /\ Generated
    /\ call.prefixLen = 1
    /\ call.r1 = Rand(1)

\* C6: with one character of the generated digest replaced by a different
\* one, validating the generated full key gives (false, no error).
C6_TamperedDigest ==
    (/\ call.op = "ValidateApiKey"
     /\ call.fullKey = issued.fullKey
     /\ Len(call.storedHash) = Len(issued.hash)
     /\ DiffCount(call.storedHash, issued.hash) = 1)
        => (call.ret.ok = FALSE /\ call.ret.err = nil)

\* the last character of the digest is the one replaced
C6_Witness ==
    /\ call.op = "ValidateApiKey"
    /\ call.fullKey = issued.fullKey
    /\ Len(call.storedHash) = 128
    /\ SubSeq(call.storedHash, 1, 127) = SubSeq(issued.hash, 1, 127)
    /\ call.storedHash[128] # issued.hash[128]
    /\ call.ret.ok = FALSE

----------------------------------------------------------------------------
(* Properties of the password and bootstrap functions *)

\* y is x with exactly one character replaced by a different one
OneCharReplaced(x, y) == Len(x) = Len(y) /\ DiffCount(x, y) = 1

\* C7: password and bootstrap tamper sensitivity.  With any single
\* character of the stored string replaced by a different one, VerifyPassword
\* resp. ValidateBootstrap, called with the plaintext the string was made
\* from, returns false.  (The claim adds "with no error"; stated here is the
\* part that a damaged delimiter, which is a format error, does not decide.)
C7_TamperedNeverMatches ==
    /\ (/\ call.op = "VerifyPassword"
        /\ call.password = issued.password
        /\ OneCharReplaced(issued.phc, call.phc))
          => call.ret.ok = FALSE
    /\ (/\ call.op = "ValidateBootstrap"
        /\ call.plain = issued.plain
        /\ OneCharReplaced(issued.hash, call.stored))
          => call.ret.ok = FALSE

\* C8: password round trip.  A string returned by HashPassword(p) verifies
\* p with (true, no error) and every other password with (false, no error);
\* hashing p again with another salt gives another string, which verifies p
\* as well.
C8_PasswordRoundTrip ==
    /\ (call.op = "VerifyPassword" /\ call.phc = issued.phc)
          => /\ call.ret.err = nil
             /\ ~call.ret.panic
             /\ call.ret.ok = (call.password = issued.password)
    /\ (call.op = "HashPassword" /\ call.ret.err = nil)
          => \A s \in 0..(MaxSaltSeed + 1) :
                Rand(5 + s) # call.r =>
                    LET o == HashPasswordWith(call.cfg, call.password, Rand(5 + s))
                        v == VerifyPassword(o.phc, call.password)
                    IN /\ o.err = nil
                       /\ o.phc # call.ret.phc
                       /\ v.ok = TRUE
                       /\ v.err = nil

\* the password is verified against a string made under the current
\* parameters; another password is rejected against the same string
C8_Witness ==
    /\ call.op = "VerifyPassword"
    /\ call.phc = issued.phc
    /\ issued.cfg = DefaultParams
    /\ call.password = issued.password
    /\ call.ret.ok = TRUE

\* C9: VerifyPassword derives with the memory cost, time cost, parallelism,
\* salt and key length read from the string, not with the compiled-in
\* ones: a string made under other parameters (another key length and salt
\* length included) verifies its password and rejects the others.
C9_StoredParameters ==
    (/\ call.op = "VerifyPassword"
     /\ call.phc = issued.phc
     /\ issued.cfg # DefaultParams)
        => /\ call.ret.err = nil
           /\ call.password = issued.password => call.ret.ok = TRUE
           /\ call.password # issued.password => call.ret.ok = FALSE

C9_Witness ==
    /\ call.op = "VerifyPassword"
    /\ call.phc = issued.phc
    /\ issued.cfg.keyLen = 16
    /\ issued.cfg.time = 1
    /\ call.password = issued.password
    /\ call.ret.ok = TRUE

\* the fields of a hash string between its '$' characters
Fields(phc) == Split(phc, 36)

\* "argon2id"
argon2idName == SubSeq(argon2idPrefix, 2, 9)

\* the cases of C10: the identifier is not argon2id, the version segment is
\* not v=19, or there are not exactly 6 fields
FailFastCase(phc) ==
    \/ Len(Fields(phc)) # 6
    \/ Fields(phc)[2] # argon2idName
    \/ Fields(phc)[3] # version19

\* C10: in these cases VerifyPassword returns (false, error) and has made no
\* derivation.
C10_FailFast ==
    (call.op = "VerifyPassword" /\ FailFastCase(call.phc))
        => /\ call.ret.ok = FALSE
           /\ call.ret.err # nil
           /\ ~call.ret.panic
           /\ call.ret.steps = << >>

\* six fields, the identifier argon2id, and a version segment that is not
\* v=19
C10_Witness ==
    /\ call.op = "VerifyPassword"
    /\ Len(Fields(call.phc)) = 6
    /\ Fields(call.phc)[2] = argon2idName
    /\ Fields(call.phc)[3] # version19
    /\ call.ret.err = "unsupported argon2 version"

\* the "k=v" entries of the parameter segment of a hash string
Entries(phc) == Split(Fields(phc)[4], 44)

EntryKey(e) == SplitN2(e, 61)[1]

EntryValue(e) == IF Len(SplitN2(e, 61)) = 2 THEN SplitN2(e, 61)[2] ELSE << >>

\* "m", "t", "p"
ParamNames == {<<109>>, <<116>>, <<112>>}

\* the largest value of a parameter: uint8 for p, uint32 for m and t
ParamMax(k) == IF k = <<112>> THEN MaxUint8 ELSE MaxUint32

\* a text that is not the unpadded base64 of any byte string, as far as its
\* characters and length tell
NotBase64(x) ==
    \/ \E i \in 1..Len(x) : ~ContainsRune(encodeStd, x[i])
    \/ Len(x) % 4 = 1

\* the malformed strings of C11, each of which has passed the prefix,
\* field-count and version checks
ParamMissing(phc) == \E k \in ParamNames : \A i \in 1..Len(Entries(phc)) : EntryKey(Entries(phc)[i]) # k

ParamRepeated(phc) ==
    \E i, j \in 1..Len(Entries(phc)) : i # j /\ EntryKey(Entries(phc)[i]) = EntryKey(Entries(phc)[j])

ParamUnknown(phc) ==
    \E i \in 1..Len(Entries(phc)) :
        EntryKey(Entries(phc)[i]) \notin ParamNames \/ Len(SplitN2(Entries(phc)[i], 61)) # 2

ParamNonNumeric(phc) ==
    \E i \in 1..Len(Entries(phc)) :
        LET v == EntryValue(Entries(phc)[i])
        IN v = << >> \/ \E n \in 1..Len(v) : ~IsDigit(v[n])

ParamOutOfRange(phc) ==
    \E i \in 1..Len(Entries(phc)) :
        LET v == EntryValue(Entries(phc)[i])
        IN /\ v # << >>
           /\ \A n \in 1..Len(v) : IsDigit(v[n])
           /\ ~NumeralLeq(StripZeros(v), ParamMax(EntryKey(Entries(phc)[i])))

ParamZero(phc) ==
    \E i \in 1..Len(Entries(phc)) :
        LET v == EntryValue(Entries(phc)[i])
        IN v # << >> /\ \A n \in 1..Len(v) : v[n] = 48

FieldEmptyOrNotBase64(phc) ==
    \E f \in {5, 6} : Fields(phc)[f] = << >> \/ NotBase64(Fields(phc)[f])

MalformedPastChecks(phc) ==
    /\ HasPrefix(phc, argon2idPrefix)
    /\ ~FailFastCase(phc)
    /\ \/ ParamMissing(phc) \/ ParamRepeated(phc) \/ ParamUnknown(phc)
       \/ ParamNonNumeric(phc) \/ ParamOutOfRange(phc) \/ ParamZero(phc)
       \/ FieldEmptyOrNotBase64(phc)

\* C11: for every hash string that passes the prefix, field-count and
\* version checks and has a parameter segment with a missing, repeated,
\* unknown, non-numeric, out-of-range or zero-valued m/t/p entry, or an
\* empty or non-base64 salt or hash field, VerifyPassword returns false
\* with an error and does not panic.
C11_MalformedRecoverable ==
    (call.op = "VerifyPassword" /\ MalformedPastChecks(call.phc))
        => /\ ~call.ret.panic
           /\ call.ret.ok = FALSE
           /\ call.ret.err # nil

\* the password is empty or has white space only
Blank(password) == \A i \in 1..Len(password) : password[i] \in {9, 10, 11, 12, 13, 32}

\* "m=65536,t=2,p=1"
DefaultParamSegment == <<109, 61, 54, 53, 53, 51, 54, 44, 116, 61, 50, 44, 112, 61, 49>>

\* C12: HashPassword (the package as compiled, with the default
\* parameters) returns an error and the empty string for a password that is
\* empty or white space only, whatever the entropy source would deliver and
\* with no derivation made; for every other password and a working entropy
\* source it returns no error and $argon2id$v=19$m=65536,t=2,p=1$salt$hash
\* with the unpadded base64 of the 16 salt bytes and of 32 hash bytes.
C12_HashPasswordContract ==
    (call.op = "HashPassword" /\ call.cfg = DefaultParams) =>
        /\ Blank(call.password) =>
              /\ call.ret.err # nil
              /\ call.ret.phc = emptyString
              /\ call.ret.steps = << >>
              /\ \A r \in SaltDraws : HashPassword(call.password, r) = call.ret
        /\ (~Blank(call.password) /\ call.r.err = nil) =>
              /\ call.ret.err = nil
              /\ ~call.ret.panic
              /\ Len(Fields(call.ret.phc)) = 6
              /\ Fields(call.ret.phc)[1] = << >>
              /\ Fields(call.ret.phc)[2] = argon2idName
              /\ Fields(call.ret.phc)[3] = version19
              /\ Fields(call.ret.phc)[4] = DefaultParamSegment
              /\ Fields(call.ret.phc)[5] = B64Encode(Read(call.r, 16))
              /\ Len(Fields(call.ret.phc)[6]) = 43
              /\ \A f \in {5, 6} : \A i \in 1..Len(Fields(call.ret.phc)[f]) :
                    ContainsRune(encodeStd, Fields(call.ret.phc)[f][i])
              /\ Len(B64Decode(Fields(call.ret.phc)[6]).bytes) = 32

\* a password of a space and a tab is refused
C12_Witness ==
    /\ call.op = "HashPassword"
    /\ call.cfg = DefaultParams
    /\ call.password = <<32, 9>>
    /\ call.r.err = nil
    /\ call.ret.err = "password cannot be empty"

----------------------------------------------------------------------------
(* Properties of the bootstrap functions *)

\* the bytes a hex text stands for
HexBytes(x) == DecodeString(x).bytes

\* a hex text: hex digits of either case, an even number of them
ValidHex(x) == Len(x) % 2 = 0 /\ \A i \in 1..Len(x) : IsHexChar(x[i])

\* C13 as stated: against the generated hash, the generated plain gives
\* (true, no error) and every other hex text that stands for other bytes
\* gives (false, no error).
C13_RoundTripAnyHex ==
    (call.op = "ValidateBootstrap" /\ call.stored = issued.hash) =>
        /\ call.plain = issued.plain => (call.ret.ok = TRUE /\ call.ret.err = nil)
        /\ (ValidHex(call.plain) /\ HexBytes(call.plain) # HexBytes(issued.plain))
              => (call.ret.ok = FALSE /\ call.ret.err = nil)

\* C13 as amended: the same, for every other non-empty hex text that stands
\* for other bytes.
C13_BootstrapRoundTrip ==
    (call.op = "ValidateBootstrap" /\ call.stored = issued.hash) =>
        /\ call.plain = issued.plain
              => (call.ret.ok = TRUE /\ call.ret.err = nil /\ ~call.ret.panic)
        /\ (/\ call.plain # emptyString
            /\ ValidHex(call.plain)
            /\ HexBytes(call.plain) # HexBytes(issued.plain))
              => (call.ret.ok = FALSE /\ call.ret.err = nil /\ ~call.ret.panic)

\* the generated plain with "deadbeef" appended is rejected without error
C13_Witness ==
    /\ call.op = "ValidateBootstrap"
    /\ call.stored = issued.hash
    /\ call.plain = issued.plain \o deadbeef
    /\ call.ret.ok = FALSE
    /\ call.ret.err = nil

\* the segments of a stored bootstrap hash between its ':' characters
Segments(stored) == Split(stored, 58)

\* the malformed inputs of C14
BadBootstrapInput(plain, stored) ==
    \/ plain = << >>
    \/ stored = << >>
    \/ Len(Segments(stored)) # 2
    \/ ~ValidHex(Segments(stored)[1])
    \/ ~ValidHex(Segments(stored)[2])
    \/ ~ValidHex(plain)

\* C14: ValidateBootstrap returns (false, error) when plain or stored is
\* empty, when stored has not exactly two segments around ':', or when the
\* salt segment, the derived segment or plain is no hex text.
C14_BootstrapMalformed ==
    (call.op = "ValidateBootstrap" /\ BadBootstrapInput(call.plain, call.stored))
        => /\ call.ret.ok = FALSE
           /\ call.ret.err # nil
           /\ ~call.ret.panic

\* a stored hash whose salt segment has lost a digit
C14_Witness ==
    /\ call.op = "ValidateBootstrap"
    /\ call.plain = issued.plain
    /\ Len(Segments(call.stored)) = 2
    /\ Len(Segments(call.stored)[1]) = 31
    /\ Segments(call.stored)[2] = Segments(issued.hash)[2]
    /\ call.ret.err = "invalid salt encoding"

GeneratedBootstrap ==
    call.op = "GenerateBootstrap" /\ call.ret.err = nil /\ ~call.ret.panic

\* C15: when the secret draw or the salt draw of GenerateBootstrap fails,
\* the call returns an error and plain, hash and expires are the zero values.
C15_EntropyFailureZeroValues ==
    (call.op = "GenerateBootstrap" /\ (call.r1.err # nil \/ call.r2.err # nil))
        => /\ call.ret.err # nil
           /\ call.ret.plain = << >>
           /\ call.ret.hash = << >>
           /\ call.ret.expires = 0

\* C16: a successful GenerateBootstrap call that starts at T and returns at
\* T' gives expires = (the clock reading of the call) + 24 hours, which is
\* in [T + 24h, T' + 24h] and later than T'; the draws do not change the
\* distance between the reading and expires.
C16_Expiry ==
    GeneratedBootstrap =>
        /\ call.ret.expires = call.now + 24 * 3600
        /\ call.start + 24 * 3600 <= call.ret.expires
        /\ call.ret.expires <= call.done + 24 * 3600
        /\ call.ret.expires > call.done
        /\ \A r1 \in BootSecretDraws, r2 \in SaltDraws :
              (r1.err = nil /\ r2.err = nil)
                => GenerateBootstrap(r1, r2, call.now).expires - call.now = 24 * 3600

\* a call during which the clock advances
C16_Witness ==
    /\ GeneratedBootstrap
    /\ call.start < call.done
    /\ call.now = call.done
    /\ call.ret.expires = call.now + 24 * 3600

\* C17 as stated: the stored hash of a secret is the same whatever salt is
\* drawn.
C17_SecretAlone ==
    GeneratedBootstrap =>
        \A r2 \in SaltDraws :
            r2.err = nil => GenerateBootstrap(call.r1, r2, call.now).hash = call.ret.hash

\* C17 as amended: the stored hash is a function of the secret and the salt
\* drawn: the clock does not change it, its salt segment is the hex of the
\* salt, and with another salt the same secret gives another salt segment
\* and another derived segment, which validates the secret as well.
C17_SecretAndSalt ==
    GeneratedBootstrap =>
        /\ \A n \in 1..(MaxClock + 1) :
              GenerateBootstrap(call.r1, call.r2, n).hash = call.ret.hash
        /\ Segments(call.ret.hash)[1] = EncodeToString(Read(call.r2, 16))
        /\ \A s \in 0..(MaxSaltSeed + 1) :
              Rand(5 + s) # call.r2 =>
                 LET o == GenerateBootstrap(call.r1, Rand(5 + s), call.now)
                     v == ValidateBootstrap(call.ret.plain, o.hash)
                 IN /\ o.plain = call.ret.plain
                    /\ Segments(o.hash)[1] # Segments(call.ret.hash)[1]
                    /\ Segments(o.hash)[2] # Segments(call.ret.hash)[2]
                    /\ v.ok = TRUE
                    /\ v.err = nil

\* the second salt
C17_Witness ==
    /\ GeneratedBootstrap
    /\ call.r2 = Rand(6)
    /\ call.r1 = Rand(3)

----------------------------------------------------------------------------
(* Properties of the API key digest and of the encoding *)

\* "0": a prefix no generated key of the model has
OtherPrefix == <<48>>

WithoutDashes(x) == SelectSeq(x, LAMBDA c : c # 45)

\* C18: the digest GenerateApiKey returns is HashApiKeySecret of the secret
\* as it stands after the separator, dashes included; and a well-formed key
\* validates against a stored hash exactly as the same secret under
\* another prefix does (the keys presented have prefixes of every length,
\* and one more is tried with each).
C18_DigestOfSecretOnly ==
    /\ Generated =>
          /\ call.ret.hash = HashApiKeySecret(SecretSegment(call.ret.fullKey))
          /\ call.ret.hash # HashApiKeySecret(WithoutDashes(SecretSegment(call.ret.fullKey)))
    /\ (call.op = "ValidateApiKey" /\ ParseApiKey(call.fullKey).err = nil) =>
          LET v == ValidateApiKey(OtherPrefix \o <<95>> \o SecretSegment(call.fullKey),
                                  call.storedHash)
          IN v.ok = call.ret.ok /\ v.err = call.ret.err

\* the issued secret under another prefix validates against the issued digest
C18_Witness ==
    /\ call.op = "ValidateApiKey"
    /\ ParseApiKey(call.fullKey).err = nil
    /\ PrefixSegment(call.fullKey) # issued.prefix
    /\ SecretSegment(call.fullKey) = SecretSegment(issued.fullKey)
    /\ call.storedHash = issued.hash
    /\ call.ret.ok = TRUE

\* 'I' 'L' 'O' '0' '1'
Ambiguous == {73, 76, 79, 48, 49}

\* the byte values that encode to the symbol sym
Preimage(sym) == {v \in 0..255 : encodeUserFriendly(<<v>>) = <<sym>>}

\* C19: the alphabet the encoding uses has 32 distinct symbols, none of them
\* I, L, O, 0 or 1, and every symbol is the image of exactly 8 byte values.
C19_AlphabetUnbiased ==
    (Generated \/ call.op = "encodeUserFriendly") =>
        /\ Len(userFriendlyAlphabet) = 32
        /\ Cardinality(AlphabetSet) = 32
        /\ AlphabetSet \cap Ambiguous = {}
        /\ \A sym \in AlphabetSet : Cardinality(Preimage(sym)) = 8

\* the symbol a byte is written as
SymbolOf(v) == userFriendlyAlphabet[(v % Len(userFriendlyAlphabet)) + 1]

\* C20: encodeUserFriendly of n >= 1 bytes is n symbols, the i-th the image
\* of the i-th byte, with one dash after every 4th symbol but the last (so
\* every 5th character is a dash and the last character never is); of no
\* bytes it is the empty string; the secret of a generated key is 24
\* characters, 5 groups of 4 symbols, and passes isValidSecret.
C20_Grouping ==
    /\ call.op = "encodeUserFriendly" =>
          LET n == Len(call.b)
              s == call.ret
          IN /\ n = 0 => s = << >>
             /\ n >= 1 =>
                   /\ Len(s) = n + ((n - 1) \div 4)
                   /\ s[Len(s)] # 45
                   /\ \A k \in 1..Len(s) :
                         IF k % 5 = 0 THEN s[k] = 45
                         ELSE s[k] = SymbolOf(call.b[k - (k \div 5)])
    /\ Generated =>
          LET s == SecretSegment(call.ret.fullKey)
          IN /\ Len(s) = 24
             /\ \A k \in 1..24 : (s[k] = 45) = (k % 5 = 0)
             /\ \A k \in 1..24 : k % 5 # 0 => s[k] \in AlphabetSet
             /\ isValidSecret(s)

\* eight bytes: two full groups and no dash at the end
C20_Witness ==
    /\ call.op = "encodeUserFriendly"
    /\ Len(call.b) = 8
    /\ Len(call.ret) = 9
    /\ call.ret[5] = 45

----------------------------------------------------------------------------
(* Properties of the three validators together *)

Validated == call.op \in {"ValidateApiKey", "VerifyPassword", "ValidateBootstrap"}

\* the call has made the library call named step
Performed(step) == \E i \in 1..Len(call.ret.steps) : call.ret.steps[i] = step

\* C21: a call of a validator that ends in an error has performed no
\* SHA-512, SHA-256 or Argon2 computation; and a call that has performed one
\* was given values that pass the structural checks.
C21_ChecksBeforeHashing ==
    /\ (Validated /\ call.ret.err # nil)
          => /\ ~Performed("sha512")
             /\ ~Performed("sha256")
             /\ ~Performed("argon2")
             /\ call.ret.steps = << >>
    /\ (call.op = "ValidateApiKey" /\ call.ret.steps # << >>) => ~Malformed(call.fullKey)
    /\ (call.op = "ValidateBootstrap" /\ call.ret.steps # << >>)
          => ~BadBootstrapInput(call.plain, call.stored)
    /\ (call.op = "VerifyPassword" /\ call.ret.steps # << >>)
          => /\ HasPrefix(call.phc, argon2idPrefix)
             /\ ~FailFastCase(call.phc)
             /\ ~ParamUnknown(call.phc)
             /\ ~ParamNonNumeric(call.phc)
             /\ ~ParamOutOfRange(call.phc)

\* a stored bootstrap hash with a damaged derived segment, presented with
\* the right secret
C21_Witness ==
    /\ call.op = "ValidateBootstrap"
    /\ call.plain = issued.plain
    /\ Len(Segments(call.stored)) = 2
    /\ Segments(call.stored)[1] = Segments(issued.hash)[1]
    /\ call.ret.err = "invalid hash encoding"
    /\ call.ret.steps = << >>

\* the two operands of the comparison of a call that has got as far as the
\* comparison: the recomputed digest and the stored one
Recomputed ==
    CASE call.op = "ValidateApiKey" -> HashApiKeySecret(SecretSegment(call.fullKey))
      [] call.op = "ValidateBootstrap" ->
            BootstrapDerive(Sum256(HexBytes(call.plain)),
                            HexBytes(Segments(call.stored)[1])).key
      [] OTHER ->
            LET st == paramLoop(Entries(call.phc), 1,
                                [mem |-> <<48>>, time |-> <<48>>, par |-> <<48>>,
                                 err |-> nil])
                want == B64Decode(Fields(call.phc)[6]).bytes
            IN IDKey(call.password, B64Decode(Fields(call.phc)[5]).bytes,
                     st.time, st.mem, st.par, Len(want)).key

StoredDigest ==
    CASE call.op = "ValidateApiKey" -> call.storedHash
      [] call.op = "ValidateBootstrap" -> HexBytes(Segments(call.stored)[2])
      [] OTHER -> B64Decode(Fields(call.phc)[6]).bytes

\* the length of the recomputed digest: 128 hex characters of SHA-512, the
\* 32 bytes asked of Argon2 for a bootstrap secret, as many bytes as the
\* stored password hash has
RecomputedLen ==
    CASE call.op = "ValidateApiKey" -> 2 * 64
      [] call.op = "ValidateBootstrap" -> 32
      [] OTHER -> Len(StoredDigest)

\* C22: a validator call without error (and without a crash) whose
\* recomputed and stored digests differ in length returns false and has not
\* called the constant-time routine; the routine is called on operands of
\* equal length only; and true is returned only after the routine was
\* called on equal operands.
C22_TwoStepComparison ==
    (Validated /\ call.ret.err = nil /\ (call.op = "ValidateApiKey" \/ ~call.ret.panic)) =>
        /\ RecomputedLen # Len(StoredDigest)
              => (call.ret.ok = FALSE /\ ~Performed("ConstantTimeCompare"))
        /\ Performed("ConstantTimeCompare") => RecomputedLen = Len(StoredDigest)
        /\ call.ret.ok = TRUE
              => /\ Performed("ConstantTimeCompare")
                 /\ Len(Recomputed) = RecomputedLen
                 /\ Recomputed = StoredDigest

\* a stored bootstrap hash whose derived segment stands for 31 bytes
C22_Witness ==
    /\ call.op = "ValidateBootstrap"
    /\ call.plain = issued.plain
    /\ call.ret.err = nil
    /\ Len(StoredDigest) = 31
    /\ call.ret.ok = FALSE
    /\ ~Performed("ConstantTimeCompare")

----------------------------------------------------------------------------
(* The inputs ParseApiKey accepts *)

\* the key has a '_', 1 to 16 lowercase hex characters before the first
\* one, and after it only alphabet symbols and dashes, 20 of them symbols
WellFormed(k) ==
    /\ \E i \in 1..Len(k) : k[i] = 95
    /\ Len(PrefixSegment(k)) >= 1
    /\ Len(PrefixSegment(k)) <= 16
    /\ \A i \in 1..Len(PrefixSegment(k)) : PrefixSegment(k)[i] \in LowerHex
    /\ \A i \in 1..Len(SecretSegment(k)) : SecretSegment(k)[i] \in AlphabetSet \cup {45}
    /\ Cardinality(Symbols(SecretSegment(k))) = 20

\* C23: ParseApiKey succeeds exactly on the well-formed keys, wherever and
\* however many the dashes of the secret are, and rejects a prefix of more
\* than 16 characters; on success the prefix, '_' and the secret make up the
\* input again and the secret is the text after the first '_', dashes kept.
C23_ParseExactly ==
    call.op = "ParseApiKey" =>
        /\ (call.ret.err = nil) = WellFormed(call.fullKey)
        /\ Len(PrefixSegment(call.fullKey)) > 16 => call.ret.err # nil
        /\ call.ret.err = nil =>
              /\ call.ret.prefix \o <<95>> \o call.ret.secret = call.fullKey
              /\ call.ret.prefix = PrefixSegment(call.fullKey)
              /\ call.ret.secret = SecretSegment(call.fullKey)

\* the issued key with a dash put at its end is accepted, dash included
C23_Witness ==
    /\ call.op = "ParseApiKey"
    /\ call.fullKey = issued.fullKey \o <<45>>
    /\ call.ret.err = nil
    /\ call.ret.secret[Len(call.ret.secret)] = 45

====
